---- MODULE Spec2Model ----
(***************************************************************************)
(* Model of src/conditional/if_unmodified_since.rs (http-types): the       *)
(* IfUnmodifiedSince typed header, its construction from a SystemTime, its *)
(* reading from and writing to a Headers collection.                       *)
(*                                                                         *)
(* A SystemTime is the number of ticks since the Unix epoch, TicksPerSec   *)
(* ticks to the second.  A header value is its text, a sequence of         *)
(* one-character strings.  Headers is a function from the header names     *)
(* present to their non-empty sequences of values, in insertion order.     *)
(***************************************************************************)
EXTENDS Integers, Sequences, FiniteSets, TLC

\* ------------------------------------------------------------------ bounds
\* Sub-second resolution of a SystemTime.
TicksPerSec == 2
\* The instants of the model are BaseSec seconds plus 0..MaxTick ticks.
BaseSec == 68255999
MaxTick == 2
\* The largest number of values stored under one header name.
MaxVals == 2

\* ------------------------------------------------- crate::headers (names)
IF_UNMODIFIED_SINCE == "if-unmodified-since"
ETAG == "etag"
Names == {IF_UNMODIFIED_SINCE, ETAG}

\* ------------------------------------------ crate::utils (HTTP-date codec)
DayNames ==
  << <<"S","u","n">>, <<"M","o","n">>, <<"T","u","e">>, <<"W","e","d">>,
     <<"T","h","u">>, <<"F","r","i">>, <<"S","a","t">> >>

MonthNames ==
  << <<"J","a","n">>, <<"F","e","b">>, <<"M","a","r">>, <<"A","p","r">>,
     <<"M","a","y">>, <<"J","u","n">>, <<"J","u","l">>, <<"A","u","g">>,
     <<"S","e","p">>, <<"O","c","t">>, <<"N","o","v">>, <<"D","e","c">> >>

Digits == <<"0","1","2","3","4","5","6","7","8","9">>

DigitChar(d) == Digits[d + 1]

IsDigit(c) == \E d \in 0..9 : Digits[d + 1] = c

DigitVal(c) == CHOOSE d \in 0..9 : Digits[d + 1] = c

TwoDigits(n) == <<DigitChar((n \div 10) % 10), DigitChar(n % 10)>>

FourDigits(n) ==
  <<DigitChar((n \div 1000) % 10), DigitChar((n \div 100) % 10),
    DigitChar((n \div 10) % 10), DigitChar(n % 10)>>

AllDigits(s) == \A i \in 1..Len(s) : IsDigit(s[i])

RECURSIVE Number(_)
Number(s) ==
  IF s = <<>> THEN 0
  ELSE 10 * Number(SubSeq(s, 1, Len(s) - 1)) + DigitVal(s[Len(s)])

\* The civil date of a day number counted from 1970-01-01.
CivilFromDays(days) ==
  LET z   == days + 719468
      era == z \div 146097
      doe == z - era * 146097
      yoe == (doe - doe \div 1460 + doe \div 36524 - doe \div 146096) \div 365
      doy == doe - (365 * yoe + yoe \div 4 - yoe \div 100)
      mp  == (5 * doy + 2) \div 153
      d   == doy - (153 * mp + 2) \div 5 + 1
      m   == IF mp < 10 THEN mp + 3 ELSE mp - 9
  IN  [year |-> yoe + era * 400 + (IF m <= 2 THEN 1 ELSE 0), mon |-> m, day |-> d]

\* The day number of a civil date.
DaysFromCivil(year, mon, day) ==
  LET y   == IF mon <= 2 THEN year - 1 ELSE year
      era == y \div 400
      yoe == y - era * 400
      doy == (153 * (IF mon > 2 THEN mon - 3 ELSE mon + 9) + 2) \div 5 + day - 1
      doe == yoe * 365 + yoe \div 4 - yoe \div 100 + doy
  IN  era * 146097 + doe - 719468

IsLeap(year) == (year % 4 = 0) /\ ((year % 100 # 0) \/ (year % 400 = 0))

DaysInMonth(year, mon) ==
  IF mon = 2 THEN (IF IsLeap(year) THEN 29 ELSE 28)
  ELSE IF mon \in {4, 6, 9, 11} THEN 30 ELSE 31

\* format(timestamp) -> text: "Sun, 06 Nov 1994 08:49:37 GMT", whole seconds.
fmt_http_date(instant) ==
  LET secs == instant \div TicksPerSec
      days == secs \div 86400
      sod  == secs % 86400
      c    == CivilFromDays(days)
  IN  DayNames[((days + 4) % 7) + 1] \o <<",", " ">>
        \o TwoDigits(c.day) \o <<" ">> \o MonthNames[c.mon] \o <<" ">>
        \o FourDigits(c.year) \o <<" ">>
        \o TwoDigits(sod \div 3600) \o <<":">>
        \o TwoDigits((sod \div 60) % 60) \o <<":">>
        \o TwoDigits(sod % 60) \o <<" ", "G", "M", "T">>

\* The text has the shape of the HTTP-date grammar.
MatchesGrammar(s) ==
  /\ Len(s) = 29
  /\ \E w \in 1..7 : SubSeq(s, 1, 3) = DayNames[w]
  /\ SubSeq(s, 4, 5) = <<",", " ">>
  /\ AllDigits(SubSeq(s, 6, 7))
  /\ s[8] = " "
  /\ \E m \in 1..12 : SubSeq(s, 9, 11) = MonthNames[m]
  /\ s[12] = " "
  /\ AllDigits(SubSeq(s, 13, 16))
  /\ s[17] = " "
  /\ AllDigits(SubSeq(s, 18, 19))
  /\ s[20] = ":"
  /\ AllDigits(SubSeq(s, 21, 22))
  /\ s[23] = ":"
  /\ AllDigits(SubSeq(s, 24, 25))
  /\ SubSeq(s, 26, 29) = <<" ", "G", "M", "T">>

BadRequest == [ok |-> FALSE, status |-> 400]

\* parse(text) -> Result<timestamp, Error>: fails, with status 400, on any
\* text that is not an HTTP-date.
parse_http_date(s) ==
  IF ~MatchesGrammar(s) THEN BadRequest
  ELSE
    LET day  == Number(SubSeq(s, 6, 7))
        mon  == CHOOSE m \in 1..12 : SubSeq(s, 9, 11) = MonthNames[m]
        year == Number(SubSeq(s, 13, 16))
        hh   == Number(SubSeq(s, 18, 19))
        mm   == Number(SubSeq(s, 21, 22))
        ss   == Number(SubSeq(s, 24, 25))
    IN  IF \/ year < 1970 \/ day < 1 \/ day > DaysInMonth(year, mon)
           \/ hh > 23 \/ mm > 59 \/ ss > 59
        THEN BadRequest
        ELSE [ok |-> TRUE,
              instant |-> (DaysFromCivil(year, mon, day) * 86400
                             + hh * 3600 + mm * 60 + ss) * TicksPerSec]

\* ------------------------------------------------------- crate::headers
\* HeaderValue::from_bytes_unchecked: wraps the bytes, unvalidated.
from_bytes_unchecked(bytes) == bytes

\* ToHeaderValues for HeaderValue: the value itself, once.
HeaderValue_to_header_values(v) == [kind |-> "Ok", values |-> <<v>>]

\* Headers::get(name) -> Option<&HeaderValues>
get(headers, name) ==
  IF name \in DOMAIN headers
  THEN [kind |-> "Some", values |-> headers[name]]
  ELSE [kind |-> "None"]

\* Headers::insert(name, values): replaces what the name held.
insert(headers, name, values) ==
  [n \in DOMAIN headers \cup {name} |-> IF n = name THEN values ELSE headers[n]]

\* Headers::append(name, values): adds after what the name held.
append(headers, name, values) ==
  [n \in DOMAIN headers \cup {name} |->
     IF n # name THEN headers[n]
     ELSE IF name \in DOMAIN headers THEN headers[name] \o values ELSE values]

\* Iterator::next in place of Iterator::last.
last_value_first(values) == values[1]

\* Iterator::last over the values of one name.
last_value(values) == values[Len(values)]

\* ------------------------------------------------ IfUnmodifiedSince
\* new() keeping whole seconds only.
new_truncating(instant) == [instant |-> (instant \div TicksPerSec) * TicksPerSec]

new(instant) == [instant |-> instant]

modified(self) == self.instant

\* A parse failure read as "no header".
from_headers_lenient(headers) ==
  LET found == get(headers, IF_UNMODIFIED_SINCE) IN
  IF found.kind = "None" THEN [kind |-> "None"]
  ELSE
    LET parsed == parse_http_date(last_value(found.values))
    IN  IF parsed.ok
        THEN [kind |-> "Some", val |-> [instant |-> parsed.instant]]
        ELSE [kind |-> "None"]

\* A missing header read as a malformed one.
from_headers_strict(headers) ==
  LET found == get(headers, IF_UNMODIFIED_SINCE) IN
  IF found.kind = "None" THEN [kind |-> "Err", status |-> 400]
  ELSE
    LET parsed == parse_http_date(last_value(found.values))
    IN  IF parsed.ok
        THEN [kind |-> "Some", val |-> [instant |-> parsed.instant]]
        ELSE [kind |-> "Err", status |-> parsed.status]

from_headers(headers) ==
  LET found == get(headers, IF_UNMODIFIED_SINCE) IN
  IF found.kind = "None" THEN [kind |-> "None"]
  ELSE
    LET header == last_value(found.values)
        parsed == parse_http_date(header)
    IN  IF parsed.ok
        THEN [kind |-> "Some", val |-> [instant |-> parsed.instant]]
        ELSE [kind |-> "Err", status |-> parsed.status]

name(self) == IF_UNMODIFIED_SINCE

\* value() rounding the instant up to the next whole second.
value_rounded_up(self) ==
  from_bytes_unchecked(fmt_http_date(self.instant + TicksPerSec - 1))

\* value() one second late.
value_next_second(self) ==
  from_bytes_unchecked(fmt_http_date(self.instant + TicksPerSec))

value(self) == from_bytes_unchecked(fmt_http_date(self.instant))

\* apply() through Headers::append.
apply_append(self, headers) ==
  append(headers, IF_UNMODIFIED_SINCE,
         HeaderValue_to_header_values(value(self)).values)

\* apply() writing a collection of its own.
apply_alone(self, headers) ==
  insert(<<>>, IF_UNMODIFIED_SINCE,
         HeaderValue_to_header_values(value(self)).values)

apply(self, headers) ==
  insert(headers, IF_UNMODIFIED_SINCE,
         HeaderValue_to_header_values(value(self)).values)

\* to_header_values() yielding no value.
to_header_values_none(self) == [kind |-> "Ok", values |-> <<>>]

to_header_values(self) ==
  [kind |-> "Ok", values |-> HeaderValue_to_header_values(value(self)).values]

\* An order of the whole seconds, the precision of the header text.
cmp_by_second(a, b) ==
  LET x == a.instant \div TicksPerSec
      y == b.instant \div TicksPerSec
  IN  IF x < y THEN "Less" ELSE IF x = y THEN "Equal" ELSE "Greater"

\* #[derive(Ord, PartialOrd)]: the order of the fields, here of instant.
cmp(a, b) ==
  IF a.instant < b.instant THEN "Less"
  ELSE IF a.instant = b.instant THEN "Equal" ELSE "Greater"

\* #[derive(Eq, PartialEq)]: equality of the fields.
eq(a, b) == a.instant = b.instant

\* ---------------------------------------------------------- inputs
Instants == {BaseSec * TicksPerSec + k : k \in 0..MaxTick}

Nori ==
  <<"<","n","o","r","i"," ","a","t","e"," ","t","h","e"," ",
    "t","a","g","."," ","y","u","m",".",">">>

\* An HTTP-date but for its zone.
WrongZone ==
  LET s == fmt_http_date(BaseSec * TicksPerSec)
  IN  SubSeq(s, 1, 26) \o <<"U", "T", "C">>

Malformed == {Nori, WrongZone}

\* The texts a caller stores under If-Unmodified-Since, and under ETag.
DateTexts == {fmt_http_date(t) : t \in Instants} \cup Malformed

TagTexts == {<<"a">>, <<"b">>}

TextsOf(n) == IF n = IF_UNMODIFIED_SINCE THEN DateTexts ELSE TagTexts

\* ----------------------------------------------------------- state
VARIABLES
  headers,  \* the Headers collection the caller owns
  self,     \* the IfUnmodifiedSince instance
  last,     \* the operation called last
  obs,      \* what it returned (for apply: what its insert replaced)
  time,     \* the SystemTime given to the last new()
  origin,   \* "new": self is new(time); "roundtrip": self was read back from
            \* headers written by new(time).apply; "parsed": read otherwise
  fresh     \* self.apply wrote the If-Unmodified-Since entry, and neither
            \* the entry nor self has been replaced since

vars == <<headers, self, last, obs, time, origin, fresh>>

Unit == [kind |-> "Unit"]

Init ==
  /\ headers = <<>>
  /\ \E t \in Instants : self = new(t) /\ time = t
  /\ last = "new"
  /\ obs = Unit
  /\ origin = "new"
  /\ fresh = FALSE

New(t) ==
  /\ self' = new(t)
  /\ time' = t
  /\ origin' = "new"
  /\ fresh' = FALSE
  /\ last' = "new"
  /\ obs' = Unit
  /\ UNCHANGED headers

Modified ==
  /\ last' = "modified"
  /\ obs' = [kind |-> "SystemTime", val |-> modified(self)]
  /\ UNCHANGED <<headers, self, time, origin, fresh>>

FromHeaders ==
  /\ last' = "from_headers"
  /\ obs' = from_headers(headers)
  /\ UNCHANGED <<headers, self, time, origin, fresh>>

\* let expires = IfUnmodifiedSince::from_headers(headers)?.unwrap();
Adopt ==
  /\ last = "from_headers"
  /\ obs.kind = "Some"
  /\ self' = obs.val
  /\ origin' = IF origin = "new" /\ fresh THEN "roundtrip" ELSE "parsed"
  /\ fresh' = FALSE
  /\ last' = "adopt"
  /\ obs' = Unit
  /\ UNCHANGED <<headers, time>>

Apply ==
  /\ headers' = apply(self, headers)
  /\ fresh' = TRUE
  /\ last' = "apply"
  /\ obs' = [kind |-> "Unit", replaced |-> get(headers, IF_UNMODIFIED_SINCE)]
  /\ UNCHANGED <<self, time, origin>>

Name ==
  /\ last' = "name"
  /\ obs' = [kind |-> "HeaderName", val |-> name(self)]
  /\ UNCHANGED <<headers, self, time, origin, fresh>>

Value ==
  /\ last' = "value"
  /\ obs' = [kind |-> "HeaderValue", val |-> value(self)]
  /\ UNCHANGED <<headers, self, time, origin, fresh>>

ToHeaderValues ==
  /\ last' = "to_header_values"
  /\ obs' = to_header_values(self)
  /\ UNCHANGED <<headers, self, time, origin, fresh>>

Compare(t) ==
  /\ last' = "cmp"
  /\ obs' = [kind |-> "Ordering", rhs |-> t,
             ord |-> cmp(self, new(t)), eq |-> eq(self, new(t))]
  /\ UNCHANGED <<headers, self, time, origin, fresh>>

\* headers.insert(name, text), by the caller
InsertValue(n, v) ==
  /\ headers' = insert(headers, n, <<v>>)
  /\ fresh' = (fresh /\ n # IF_UNMODIFIED_SINCE)
  /\ last' = "insert"
  /\ obs' = Unit
  /\ UNCHANGED <<self, time, origin>>

\* headers.append(name, text), by the caller
AppendValue(n, v) ==
  /\ Len(get(append(headers, n, <<v>>), n).values) <= MaxVals
  /\ headers' = append(headers, n, <<v>>)
  /\ fresh' = (fresh /\ n # IF_UNMODIFIED_SINCE)
  /\ last' = "append"
  /\ obs' = Unit
  /\ UNCHANGED <<self, time, origin>>

Next ==
  \/ \E t \in Instants : New(t)
  \/ Modified
  \/ FromHeaders
  \/ Adopt
  \/ Apply
  \/ Name
  \/ Value
  \/ ToHeaderValues
  \/ \E t \in Instants : Compare(t)
  \/ \E n \in Names : \E v \in TextsOf(n) : InsertValue(n, v)
  \/ \E n \in Names : \E v \in TextsOf(n) : AppendValue(n, v)

Spec == Init /\ [][Next]_vars

\* ------------------------------------------------------------ claims
Stored == get(headers, IF_UNMODIFIED_SINCE)

WholeSecond(t) == t % TicksPerSec = 0

\* C1: reading back the collection that new(T).apply wrote yields Some(V)
\* with V.modified() <= T and T - V.modified() under one second.
RoundTrip ==
  (last = "from_headers" /\ fresh /\ origin = "new") =>
    /\ obs.kind = "Some"
    /\ modified(obs.val) <= time
    /\ time - modified(obs.val) < TicksPerSec

RoundTripWitness ==
  /\ last = "from_headers" /\ fresh /\ origin = "new"
  /\ ~WholeSecond(time)
  /\ obs.kind = "Some"
  /\ modified(obs.val) < time

\* C2: when the value from_headers selects does not match the HTTP-date
\* grammar, from_headers fails with status 400: it is neither None nor Some.
MalformedIsBadRequest ==
  (/\ last = "from_headers"
   /\ Stored.kind = "Some"
   /\ ~MatchesGrammar(last_value(Stored.values))) =>
    /\ obs.kind = "Err"
    /\ obs.status = 400

MalformedWitness ==
  /\ last = "from_headers"
  /\ Stored.kind = "Some"
  /\ Stored.values = <<Nori>>
  /\ obs.kind = "Err"

\* C3: from_headers returns Ok(None) exactly when the collection has no
\* entry under If-Unmodified-Since, whatever else it holds.
MissingIffNone ==
  last = "from_headers" =>
    (obs.kind = "None" <=> IF_UNMODIFIED_SINCE \notin DOMAIN headers)

MissingWitness ==
  /\ last = "from_headers"
  /\ obs.kind = "None"
  /\ ETAG \in DOMAIN headers
  /\ IF_UNMODIFIED_SINCE \notin DOMAIN headers

\* C4: the outcome of from_headers is that of parsing the last value stored
\* under the name; the values before it do not count.
LastValueDecides ==
  (last = "from_headers" /\ Stored.kind = "Some") =>
    LET parsed == parse_http_date(Stored.values[Len(Stored.values)])
    IN  IF parsed.ok
        THEN obs = [kind |-> "Some", val |-> [instant |-> parsed.instant]]
        ELSE obs = [kind |-> "Err", status |-> 400]

LastValueWitness ==
  /\ last = "from_headers"
  /\ Stored.kind = "Some"
  /\ Len(Stored.values) = 2
  /\ Stored.values[1] = Nori
  /\ obs.kind = "Some"
  /\ fmt_http_date(modified(obs.val)) = Stored.values[2]

\* C5: right after apply the name holds exactly one value, the text of the
\* applied instance, whatever inserts, appends and applies came before.
OverwriteOnApply ==
  last = "apply" =>
    /\ Stored.kind = "Some"
    /\ Stored.values = <<value(self)>>

OverwriteWitness ==
  /\ last = "apply"
  /\ obs.replaced.kind = "Some"
  /\ Len(obs.replaced.values) = 2
  /\ \E t \in Instants :
       /\ obs.replaced.values[2] = fmt_http_date(t)
       /\ obs.replaced.values[2] # value(self)
  /\ Stored.values = <<value(self)>>

\* C6: instances compare, and are equal, exactly as their instants do; so
\* new(T1) < new(T2) whenever T1 < T2, within one second too.
OrderingByInstant ==
  last = "cmp" =>
    /\ obs.ord = "Less" <=> modified(self) < obs.rhs
    /\ obs.ord = "Equal" <=> modified(self) = obs.rhs
    /\ obs.ord = "Greater" <=> modified(self) > obs.rhs
    /\ obs.eq <=> modified(self) = obs.rhs
    /\ (origin = "new" /\ time < obs.rhs) => obs.ord = "Less"

OrderingWitness ==
  /\ last = "cmp"
  /\ origin = "new"
  /\ time < obs.rhs
  /\ time \div TicksPerSec = obs.rhs \div TicksPerSec
  /\ obs.ord = "Less"
  /\ ~obs.eq

\* C7: to_header_values succeeds and yields exactly one value, value(), the
\* HTTP-date text of the instant.
OneHeaderValue ==
  last = "to_header_values" =>
    /\ obs.kind = "Ok"
    /\ Len(obs.values) = 1
    /\ obs.values[1] = value(self)
    /\ obs.values[1] = fmt_http_date(modified(self))

OneHeaderValueWitness ==
  /\ last = "to_header_values"
  /\ obs.kind = "Ok"
  /\ ~WholeSecond(modified(self))
  /\ obs.values = <<fmt_http_date(modified(self))>>

\* C8: new(T).modified() is T, untruncated, and stays T through every call
\* of apply, value, name, to_header_values and modified on the instance.
Immutable ==
  /\ origin = "new" => modified(self) = time
  /\ (origin = "new" /\ last = "modified") => obs.val = time

ImmutableWitness ==
  /\ origin = "new"
  /\ fresh
  /\ last = "modified"
  /\ ~WholeSecond(time)
  /\ obs.val = time

\* C9: apply leaves every name but If-Unmodified-Since as it was, values and
\* their order; from_headers leaves the whole collection as it was.
FrameOfCollection ==
  [][/\ last' = "apply" =>
          \A n \in Names \ {IF_UNMODIFIED_SINCE} : get(headers', n) = get(headers, n)
     /\ last' = "from_headers" => headers' = headers]_vars

FrameWitness ==
  /\ last = "apply"
  /\ obs.replaced.kind = "Some"
  /\ ETAG \in DOMAIN headers
  /\ headers[ETAG] = << <<"b">>, <<"a">> >>

\* C10: the instance V' read back from what new(T).apply wrote writes the
\* text new(T) writes, equals new(T) only if T is a whole second, and is
\* itself read back exactly from what V'.apply writes.
Canonical ==
  /\ origin = "roundtrip" =>
       /\ value(self) = value(new(time))
       /\ eq(self, new(time)) <=> WholeSecond(time)
  /\ (origin = "roundtrip" /\ fresh /\ last = "from_headers") =>
       obs = [kind |-> "Some", val |-> self]

CanonicalWitness ==
  /\ origin = "roundtrip"
  /\ fresh
  /\ last = "from_headers"
  /\ obs.kind = "Some"
  /\ ~WholeSecond(time)
  /\ ~eq(self, new(time))

====
